---- MODULE Spec2Model ----
(***************************************************************************)
(* Web Viewer URL Checker (obsidian-web-blocker), src/main.ts.             *)
(*                                                                         *)
(* Text values (blocklist text, keywords, addresses, HH:MM times) are      *)
(* sequences of one-character strings, so that splitting, trimming,        *)
(* lower-casing, decoding and substring search are computed character by   *)
(* character as the code computes them.                                    *)
(***************************************************************************)
EXTENDS Integers, Sequences, FiniteSets, TLC

VARIABLES
    phase,            \* "constructed" | "loaded" | "unloaded": plugin lifecycle
    settings,         \* this.settings (main.ts:24)
    intervalId,       \* this.intervalId (main.ts:25): 0 or the scan timer's handle
    nuclearTimerId,   \* this.nuclearTimerId (main.ts:26): 0 or the poll timer's handle
    scanTimers,       \* number of live 500 ms intervals in the window's timer table
    nuclearTimers,    \* number of live 60 s intervals in the window's timer table
    addressValues,    \* this.addressValues (main.ts:27): field identity -> last address
    stringsToCheck,   \* this.stringsToCheck (main.ts:28): the active keyword list
    originalBlocklist,\* this.originalBlocklist (main.ts:30): the Nuclear baseline text
    file,             \* data/blocklist.txt: NoFile or its text
    persisted,        \* data.json: NoData or the settings record last passed to saveData
    now,              \* wall-clock time of day, minutes since midnight
    toggleH,          \* blocking-toggle onChange handler: Idle or suspended at its await
    saveH,            \* blocklist save handler (button / input): Idle or suspended
    notices,          \* the Notice texts the most recent handler or callback showed
    tick,             \* what the most recent scan tick saw and did
    lockWindow,       \* history: the schedule in force when Nuclear Mode last became
                      \* Active, while time has stayed inside it ever since; else NoLock
    probe             \* the last single call of a pure method: arguments and result

vars == <<phase, settings, intervalId, nuclearTimerId, scanTimers, nuclearTimers,
          addressValues, stringsToCheck, originalBlocklist, file, persisted, now,
          toggleH, saveH, notices, tick, lockWindow, probe>>

----------------------------------------------------------------------------
(* Characters and strings                                                  *)

UpperChars == <<"A","B","C","D","E","F","G","H","I","J","K","L","M",
                "N","O","P","Q","R","S","T","U","V","W","X","Y","Z">>
LowerChars == <<"a","b","c","d","e","f","g","h","i","j","k","l","m",
                "n","o","p","q","r","s","t","u","v","w","x","y","z">>
DigitChars == <<"0","1","2","3","4","5","6","7","8","9">>

UpperSet == {UpperChars[i] : i \in 1..Len(UpperChars)}
LowerSet == {LowerChars[i] : i \in 1..Len(LowerChars)}
DigitSet == {DigitChars[i] : i \in 1..Len(DigitChars)}
LowerOfUpper ==
    [c \in UpperSet |-> LowerChars[CHOOSE i \in 1..Len(UpperChars) : UpperChars[i] = c]]

IsUpper(c) == c \in UpperSet
IsLower(c) == c \in LowerSet
IsDigit(c) == c \in DigitSet
DigitValue(c) == (CHOOSE i \in 1..Len(DigitChars) : DigitChars[i] = c) - 1

\* String.prototype.toLowerCase, on the ASCII letters
ToLowerChar(c) == IF c \in UpperSet THEN LowerOfUpper[c] ELSE c
ToLowerCase(s) == [i \in 1..Len(s) |-> ToLowerChar(s[i])]

\* String.prototype.includes: sub occurs in s as a contiguous run
Includes(s, sub) ==
    \E i \in 0..(Len(s) - Len(sub)) : \A j \in 1..Len(sub) : s[i + j] = sub[j]

\* Array.prototype.includes
Member(list, e) == \E i \in 1..Len(list) : list[i] = e

ToSet(list) == {list[i] : i \in 1..Len(list)}

\* the suffix of s from index i on
Drop(s, i) == SubSeq(s, i, Len(s))

\* index of the first character of s that is in set, or 0
FirstIn(s, set) ==
    IF \E i \in 1..Len(s) : s[i] \in set
    THEN CHOOSE i \in 1..Len(s) : s[i] \in set /\ \A j \in 1..(i - 1) : s[j] \notin set
    ELSE 0

\* index of the first character of s that is not in set, or 0
FirstNotIn(s, set) ==
    IF \E i \in 1..Len(s) : s[i] \notin set
    THEN CHOOSE i \in 1..Len(s) : s[i] \notin set /\ \A j \in 1..(i - 1) : s[j] \in set
    ELSE 0

IsWhite(c) == c \in {" ", "\t", "\n", "\r", "\f"}

\* String.prototype.trim
RECURSIVE TrimLeft(_)
TrimLeft(s) == IF s # <<>> /\ IsWhite(Head(s)) THEN TrimLeft(Tail(s)) ELSE s
RECURSIVE TrimRight(_)
TrimRight(s) ==
    IF s # <<>> /\ IsWhite(s[Len(s)]) THEN TrimRight(SubSeq(s, 1, Len(s) - 1)) ELSE s
Trim(s) == TrimRight(TrimLeft(s))

\* [...new Set(list)]: first occurrences, in order
RECURSIVE Dedup(_)
Dedup(list) ==
    IF list = <<>> THEN <<>>
    ELSE LET init == SubSeq(list, 1, Len(list) - 1)
             last == list[Len(list)]
         IN  IF Member(init, last) THEN Dedup(init) ELSE Append(Dedup(init), last)

\* Array.prototype.join(sep)
RECURSIVE Join(_, _)
Join(list, sep) ==
    IF list = <<>> THEN <<>>
    ELSE IF Len(list) = 1 THEN list[1]
    ELSE list[1] \o sep \o Join(Tail(list), sep)

----------------------------------------------------------------------------
(* Keyword store: parseBlocklist                                           *)

Separators == {",", "\t", ";"}

\* content.split(/\r?\n/)
RECURSIVE SplitLines(_)
SplitLines(s) ==
    LET i == FirstIn(s, {"\n"})
    IN  IF i = 0 THEN <<s>>
        ELSE LET raw  == SubSeq(s, 1, i - 1)
                 line == IF raw # <<>> /\ raw[Len(raw)] = "\r"
                         THEN SubSeq(raw, 1, Len(raw) - 1) ELSE raw
             IN  <<line>> \o SplitLines(Drop(s, i + 1))

\* line.split(/[,\t;]+/)
RECURSIVE SplitSeparators(_)
SplitSeparators(s) ==
    LET i == FirstIn(s, Separators)
    IN  IF i = 0 THEN <<s>>
        ELSE LET rest == Drop(s, i)
                 j    == FirstNotIn(rest, Separators)
             IN  <<SubSeq(s, 1, i - 1)>>
                   \o SplitSeparators(IF j = 0 THEN <<>> ELSE Drop(rest, j))

\* a faulty variant of TrimmedParts: the parts as they are, not trimmed
TrimmedPartsRaw(parts) == SelectSeq(parts, LAMBDA part : Trim(part) # <<>>)

\* the trimmed, non-empty parts of one separator line, in order
RECURSIVE TrimmedParts(_)
TrimmedParts(parts) ==
    IF parts = <<>> THEN <<>>
    ELSE LET trimmed == Trim(Head(parts))
         IN  (IF trimmed # <<>> THEN <<trimmed>> ELSE <<>>) \o TrimmedParts(Tail(parts))

\* a faulty variant of LineKeywords: a line is never split on separators
LineKeywordsWhole(line) == IF Trim(line) = <<>> THEN <<>> ELSE <<Trim(line)>>

\* the keywords one line contributes (the body of the for loop)
LineKeywords(line) ==
    IF Trim(line) = <<>> THEN <<>>
    ELSE IF \E i \in 1..Len(line) : line[i] \in Separators
    THEN TrimmedParts(SplitSeparators(line))
    ELSE <<Trim(line)>>

RECURSIVE AllLineKeywords(_)
AllLineKeywords(lines) ==
    IF lines = <<>> THEN <<>>
    ELSE LineKeywords(Head(lines)) \o AllLineKeywords(Tail(lines))

parseBlocklist(content) == Dedup(AllLineKeywords(SplitLines(content)))

----------------------------------------------------------------------------
(* Nuclear schedule: time validation and window containment                *)

\* /^([0-1]?[0-9]|2[0-3]):([0-5][0-9])$/.test(time)
isValidTimeFormat(time) ==
    \/ /\ Len(time) = 5
       /\ \/ time[1] \in {"0", "1"} /\ IsDigit(time[2])
          \/ time[1] = "2" /\ time[2] \in {"0", "1", "2", "3"}
       /\ time[3] = ":"
       /\ time[4] \in {"0", "1", "2", "3", "4", "5"}
       /\ IsDigit(time[5])
    \/ /\ Len(time) = 4
       /\ IsDigit(time[1])
       /\ time[2] = ":"
       /\ time[3] \in {"0", "1", "2", "3", "4", "5"}
       /\ IsDigit(time[4])

\* time.split(':')
RECURSIVE SplitColon(_)
SplitColon(s) ==
    LET i == FirstIn(s, {":"})
    IN  IF i = 0 THEN <<s>>
        ELSE <<SubSeq(s, 1, i - 1)>> \o SplitColon(Drop(s, i + 1))

\* Number(text) for a string of decimal digits (Number("") is 0)
RECURSIVE NumberOf(_)
NumberOf(s) ==
    IF s = <<>> THEN 0
    ELSE NumberOf(SubSeq(s, 1, Len(s) - 1)) * 10 + DigitValue(s[Len(s)])

\* const [hour, minute] = time.split(':').map(Number); hour * 60 + minute
TimeInMinutes(time) ==
    LET parts == SplitColon(time)
    IN  NumberOf(parts[1]) * 60 + NumberOf(parts[2])

\* now.getHours() * 60 + now.getMinutes(), for a time of day t in minutes
CurrentTimeInMinutes(t) == (t \div 60) * 60 + (t % 60)

\* a faulty variant of IsWithinWindow: the end minute counted as inside
IsWithinWindowClosed(cur, start, end) ==
    IF start < end
    THEN cur >= start /\ cur <= end
    ELSE cur >= start \/ cur <= end

\* the comparison at the end of checkNuclearStatus
IsWithinWindow(cur, start, end) ==
    IF start < end
    THEN cur >= start /\ cur < end
    ELSE cur >= start \/ cur < end

checkNuclearStatus(s, t) ==
    IF ~s.nuclearModeEnabled THEN FALSE
    ELSE IsWithinWindow(CurrentTimeInMinutes(t),
                        TimeInMinutes(s.nuclearStartTime),
                        TimeInMinutes(s.nuclearEndTime))

----------------------------------------------------------------------------
(* URL match engine: new URL(url).searchParams, decodeURIComponent         *)

\* the printable ASCII characters, code 32 (space) to 126 (~); the grave accent
\* (code 96), which a TLA+ string cannot hold, is the pseudo-character "GRAVE"
AsciiChars == <<
    " ", "!", "\"", "#", "$", "%", "&", "'", "(", ")", "*", "+", ",", "-", ".", "/",
    "0", "1", "2", "3", "4", "5", "6", "7", "8", "9", ":", ";", "<", "=", ">", "?",
    "@", "A", "B", "C", "D", "E", "F", "G", "H", "I", "J", "K", "L", "M", "N", "O",
    "P", "Q", "R", "S", "T", "U", "V", "W", "X", "Y", "Z", "[", "\\", "]", "^", "_",
    "GRAVE", "a", "b", "c", "d", "e", "f", "g", "h", "i", "j", "k", "l", "m", "n", "o",
    "p", "q", "r", "s", "t", "u", "v", "w", "x", "y", "z", "{", "|", "}", "~" >>

HexChars == <<"0","1","2","3","4","5","6","7","8","9","a","b","c","d","e","f">>
IsHex(c) == \E i \in 1..Len(HexChars) : HexChars[i] = ToLowerChar(c)
HexValue(c) == (CHOOSE i \in 1..Len(HexChars) : HexChars[i] = ToLowerChar(c)) - 1

\* the code of a %XY escape
ByteOf(h1, h2) == HexValue(h1) * 16 + HexValue(h2)
\* a single byte decoded as UTF-8: only a byte below 128 is a character by itself
IsAsciiByte(b) == b < Len(AsciiChars) + 33
\* printable ASCII as itself; a control character as the pseudo-character "CTL"
CharOfByte(b) == IF b >= 32 /\ b <= Len(AsciiChars) + 31 THEN AsciiChars[b - 31] ELSE "CTL"

IsEscapeAt(s, i) == s[i] = "%" /\ i + 2 <= Len(s) /\ IsHex(s[i + 1]) /\ IsHex(s[i + 2])

\* decodeURIComponent: [ok |-> FALSE] stands for the URIError it throws on a "%"
\* that does not start an escape, or on an escape that is not valid UTF-8
RECURSIVE decodeURIComponent(_)
decodeURIComponent(s) ==
    IF s = <<>> THEN [ok |-> TRUE, value |-> <<>>]
    ELSE IF s[1] # "%"
    THEN LET rest == decodeURIComponent(Tail(s))
         IN  IF rest.ok THEN [ok |-> TRUE, value |-> <<s[1]>> \o rest.value] ELSE rest
    ELSE IF ~IsEscapeAt(s, 1) \/ ~IsAsciiByte(ByteOf(s[2], s[3]))
    THEN [ok |-> FALSE, value |-> <<>>]
    ELSE LET rest == decodeURIComponent(Drop(s, 4))
         IN  IF rest.ok
             THEN [ok |-> TRUE, value |-> <<CharOfByte(ByteOf(s[2], s[3]))>> \o rest.value]
             ELSE rest

\* the percent-decoding of the application/x-www-form-urlencoded parser: a "%" that
\* starts no escape stays as it is; a byte that is no character becomes U+FFFD
RECURSIVE PercentDecode(_)
PercentDecode(s) ==
    IF s = <<>> THEN <<>>
    ELSE IF IsEscapeAt(s, 1)
    THEN <<IF IsAsciiByte(ByteOf(s[2], s[3])) THEN CharOfByte(ByteOf(s[2], s[3]))
           ELSE "U+FFFD">> \o PercentDecode(Drop(s, 4))
    ELSE <<s[1]>> \o PercentDecode(Tail(s))

\* .replace(/\+/g, ' ')
ReplacePlus(s) == [i \in 1..Len(s) |-> IF s[i] = "+" THEN " " ELSE s[i]]

\* s.split(sep) for a one-character separator
RECURSIVE SplitOn(_, _)
SplitOn(s, sep) ==
    LET i == FirstIn(s, {sep})
    IN  IF i = 0 THEN <<s>>
        ELSE <<SubSeq(s, 1, i - 1)>> \o SplitOn(Drop(s, i + 1), sep)

IsSchemeChar(c) == IsLower(c) \/ IsUpper(c) \/ IsDigit(c) \/ c \in {"+", "-", "."}
IsHostChar(c) == IsLower(c) \/ IsUpper(c) \/ IsDigit(c) \/ c \in {"-", "."}
SpecialSchemes == { <<"h","t","t","p">>, <<"h","t","t","p","s">> }

\* the address without the leading and trailing spaces the URL parser strips
UrlInput(url) == Trim(url)

\* the scheme of the address (lower-cased), or <<>> when it has none
UrlScheme(url) ==
    LET u == UrlInput(url)
        i == FirstIn(u, {":"})
    IN  IF i > 1 /\ (IsLower(u[1]) \/ IsUpper(u[1]))
              /\ \A j \in 2..(i - 1) : IsSchemeChar(u[j])
        THEN ToLowerCase(SubSeq(u, 1, i - 1))
        ELSE <<>>

\* a faulty variant of ParsesAsUrl: new URL(url) never throws
ParsesAsUrlAlways(url) == TRUE

\* whether new URL(url) returns (TRUE) or throws a TypeError (FALSE): an address
\* needs a scheme, and an http(s) address a host of letters, digits, "-" and "."
ParsesAsUrl(url) ==
    LET u      == UrlInput(url)
        scheme == UrlScheme(url)
        after  == Drop(u, Len(scheme) + 2)
        k      == FirstNotIn(after, {"/", "\\"})
        tail   == IF k = 0 THEN <<>> ELSE Drop(after, k)
        e      == FirstIn(tail, {"/", "\\", "?", "#"})
        host   == IF e = 0 THEN tail ELSE SubSeq(tail, 1, e - 1)
    IN  /\ scheme # <<>>
        /\ scheme \in SpecialSchemes =>
              host # <<>> /\ \A j \in 1..Len(host) : IsHostChar(host[j])

\* parsedUrl.search without its "?": from the first "?" to the fragment
UrlQuery(url) ==
    LET u      == UrlInput(url)
        h      == FirstIn(u, {"#"})
        noFrag == IF h = 0 THEN u ELSE SubSeq(u, 1, h - 1)
        i      == FirstIn(noFrag, {"?"})
    IN  IF i = 0 THEN <<>> ELSE Drop(noFrag, i + 1)

\* one name=value piece as URLSearchParams holds it: "+" is a space, escapes decoded
ParamOf(piece) ==
    LET i == FirstIn(piece, {"="})
        n == IF i = 0 THEN piece ELSE SubSeq(piece, 1, i - 1)
        v == IF i = 0 THEN <<>> ELSE Drop(piece, i + 1)
    IN  [name |-> PercentDecode(ReplacePlus(n)), value |-> PercentDecode(ReplacePlus(v))]

RECURSIVE ParamsOf(_)
ParamsOf(pieces) ==
    IF pieces = <<>> THEN <<>>
    ELSE (IF Head(pieces) = <<>> THEN <<>> ELSE <<ParamOf(Head(pieces))>>)
           \o ParamsOf(Tail(pieces))

\* parsedUrl.searchParams: the (name, value) pairs in order
searchParams(url) == ParamsOf(SplitOn(UrlQuery(url), "&"))

\* searchParams.has(name) / searchParams.get(name) || ''
ParamHas(params, name) == \E i \in 1..Len(params) : params[i].name = name
ParamGet(params, name) ==
    params[CHOOSE i \in 1..Len(params) :
             params[i].name = name /\ \A j \in 1..(i - 1) : params[j].name # name].value

\* const queryParams = ['q', 'query', 'search', 'text', 'term', 'p', 'keyword']
queryParams == << <<"q">>, <<"q","u","e","r","y">>, <<"s","e","a","r","c","h">>,
                  <<"t","e","x","t">>, <<"t","e","r","m">>, <<"p">>,
                  <<"k","e","y","w","o","r","d">> >>

\* decodeURIComponent(value).replace(/\+/g, ' ').toLowerCase(), when it does not throw
DecodedValue(value) == ToLowerCase(ReplacePlus(decodeURIComponent(value).value))
DecodeThrows(value) == ~decodeURIComponent(value).ok

\* some keyword of the list is in text: the inner for loops' test
AnyKeywordIn(text, keywords) ==
    \E i \in 1..Len(keywords) : Includes(text, ToLowerCase(keywords[i]))

\* the loop over queryParams: "close" when a well-known parameter matched and a panel
\* was closed (the function returns), "throw" when decoding threw, else "none"
RECURSIVE WellKnownScan(_, _, _, _)
WellKnownScan(names, params, keywords, leaf) ==
    IF names = <<>> THEN "none"
    ELSE IF ~ParamHas(params, Head(names))
    THEN WellKnownScan(Tail(names), params, keywords, leaf)
    ELSE IF DecodeThrows(ParamGet(params, Head(names))) THEN "throw"
    ELSE IF AnyKeywordIn(DecodedValue(ParamGet(params, Head(names))), keywords) /\ leaf
    THEN "close"
    ELSE WellKnownScan(Tail(names), params, keywords, leaf)

\* searchParams.forEach: the number of close requests it makes. The callback's
\* return leaves only the callback, so the next parameter is still examined; a
\* throwing decode or close call leaves forEach for the catch block.
RECURSIVE ForEachScan(_, _, _, _)
ForEachScan(params, keywords, leaf, closeThrows) ==
    IF params = <<>> THEN 0
    ELSE IF DecodeThrows(Head(params).value) THEN 0
    ELSE IF AnyKeywordIn(DecodedValue(Head(params).value), keywords) /\ leaf
    THEN IF closeThrows THEN 1
         ELSE 1 + ForEachScan(Tail(params), keywords, leaf, closeThrows)
    ELSE ForEachScan(Tail(params), keywords, leaf, closeThrows)

\* a faulty variant of checkUrlForStrings: the raw match made without looking at
\* settings.isEnabled
checkUrlForStringsUnguarded(url, isEnabled, keywords, leaf, closeThrows) ==
    IF AnyKeywordIn(ToLowerCase(url), keywords) /\ leaf THEN 1 ELSE 0

\* checkUrlForStrings: the number of panel closes (detachLeavesOfType calls) it
\* requests. leaf: getMostRecentLeaf() returns a panel; closeThrows: the close call
\* throws. Every exception ends in the catch block of line 298.
checkUrlForStrings(url, isEnabled, keywords, leaf, closeThrows) ==
    IF ~isEnabled THEN 0
    ELSE IF AnyKeywordIn(ToLowerCase(url), keywords)
    THEN IF leaf THEN 1 ELSE 0
    ELSE IF ~ParsesAsUrl(url) THEN 0
    ELSE LET params == searchParams(url)
             known  == WellKnownScan(queryParams, params, keywords, leaf)
         IN  IF known = "close" THEN 1
             ELSE IF known = "throw" THEN 0
             ELSE ForEachScan(params, keywords, leaf, closeThrows)

----------------------------------------------------------------------------
(* Program constants                                                       *)

Newline == <<"\n">>

\* DEFAULT_SETTINGS
DefaultBlocklist == <<"y","o","u","t","u","b","e","\n","t","w","i","t","t","e","r","\n","f","a","c","e","b","o","o","k","\n","r","e","d","d","i","t">>
DEFAULT_SETTINGS ==
    [ isEnabled          |-> TRUE,
      blocklistContent   |-> DefaultBlocklist,
      nuclearModeEnabled |-> FALSE,
      nuclearStartTime   |-> <<"2","2",":","0","0">>,
      nuclearEndTime     |-> <<"0","5",":","0","0">>,
      nuclearActive      |-> FALSE ]

NoticeCannotDisable  == "Cannot disable blocking during nuclear mode"
NoticeRemovalRefused == "Removing entries is not allowed during nuclear mode. Your additions have been preserved."
NoticeActivated      == "Nuclear mode activated! Blocking is enforced until <end>"
NoticeDeactivated    == "Nuclear mode deactivated. Normal settings restored."
NoticeInvalidTimes   == "Please enter valid start and end times in HH:MM format"
NoticeScheduleOn     == "Nuclear schedule activated"
NoticeSaved          == "Blocklist saved successfully"
NoticeSaveFailed     == "Failed to save blocklist"

----------------------------------------------------------------------------
(* Inputs of the environment, drawn from small sets                        *)

\* identities (getElementPath) of the address fields a document can show
FieldIds == {"f1", "f2"}

\* texts the user puts into the blocklist editor
TextShrunk == <<"t","w","i","t","t","e","r",";"," ","n","e","w","s","\n","y","o","u","t","u","b","e">>
TextInputs == {TextShrunk}

\* texts typed into the start and end time fields
StartInputs == {<<"9",":","0","0">>, <<"2","5",":","6","1">>}
EndInputs   == {<<"0","5",":","0","0">>, <<"2","4",":","0","0">>}

\* the times of day the clock goes through, in order, then around again
ClockTimes == <<1410, 300, 600>>

\* addresses an address field can show
AddrRaw      == <<"h","t","t","p",":","/","/","Y","o","u","T","u","b","e",".","c","o","m","/","w">>
AddrQuery    == <<"h","t","t","p","s",":","/","/","e","x","a","m","p","l","e",".","c","o","m","/","s","e","a","r","c","h","?","q","=","c","a","t","+","v","i","d","e","o","s">>
AddrTwo      == <<"h","t","t","p",":","/","/","e","/","?","x","=","c","a","t","+","v","i","d","e","o","s","&","y","=","c","a","t","%","2","0","v","i","d","e","o","s">>
AddrThrow    == <<"h","t","t","p",":","/","/","e","/","?","a","=","1","0","0","%","2","5","&","b","=","c","a","t","+","v","i","d","e","o","s">>
AddrTwice    == <<"h","t","t","p",":","/","/","e","/","?","q","=","c","%","2","5","6","1","t","+","v","i","d","e","o","s">>
AddrNoUrl    == <<"q","=","c","a","t","+","v","i","d","e","o","s">>
AddrNoScheme == <<"e","x","a","m","p","l","e",".","c","o","m","/","?","q","=","c","a","t","+","v","i","d","e","o","s">>
AddrWord     == <<"c","o","n","c","a","t","e","n","a","t","e"," ","V","i","d","e","o","s">>
AddrClean    == <<"h","t","t","p",":","/","/","e","/","n","o","t","e","s">>
Addresses == {AddrRaw, AddrQuery, AddrTwo, AddrThrow, AddrTwice, AddrNoUrl, AddrNoScheme,
              AddrWord, AddrClean}
\* the addresses the fields show in the scan ticks
TickAddresses == {AddrRaw, AddrClean}

\* blocklist texts of the address-scan runs, and the keyword lists of the
\* single calls of checkUrlForStrings
TextScanA == <<"c","a","t"," ","v","i","d","e","o","s","\n","N","o","t","e","s">>
TextScanB == <<"C","a","t">>
ScanTexts == {TextScanA}
KeywordLists == {parseBlocklist(DefaultBlocklist), parseBlocklist(TextScanA),
                 parseBlocklist(TextScanB), <<>>}

\* times of day for the window check: the multiples of MinuteStep, the minute
\* before each, and the times around the default schedule 22:00 - 05:00
MinuteStep == 180
Minutes ==
    {m \in 0..1439 : m % MinuteStep = 0 \/ m % MinuteStep = MinuteStep - 1}
      \cup {299, 300, 301, 360, 1319, 1320, 1321, 1410, 1439}

\* the HH:MM text of a time of day, as the time fields hold it
TimeText(m) ==
    << DigitChars[((m \div 60) \div 10) + 1], DigitChars[((m \div 60) % 10) + 1], ":",
       DigitChars[((m % 60) \div 10) + 1], DigitChars[((m % 60) % 10) + 1] >>

\* texts for the time validator: every text of at most MaxTimeLen characters
\* over TimeChars, and some more
MaxTimeLen == 5
TimeChars == {"0", "2", "3", "6", "9", ":"}
TimeTexts ==
    UNION {[1..n -> TimeChars] : n \in 0..MaxTimeLen}
      \cup {<<"2","5",":","6","1">>, <<"2","3",":","5","9">>, <<"2","4",":","0","0">>, <<"0","5",":","0","0">>, <<" ","9",":","0","0">>}

\* texts for parseBlocklist: every text of at most MaxTextLen characters over
\* ParseChars, and some more
MaxTextLen == 4
ParseChars == {"a", ",", ";", " ", "\n", "\r"}
TextExample == <<"y","o","u","t","u","b","e","\n","t","w","i","t","t","e","r",","," ","i","n","s","t","a","g","r","a","m","\n","f","a","c","e","b","o","o","k",";","r","e","d","d","i","t">>
ParseTexts ==
    UNION {[1..n -> ParseChars] : n \in 0..MaxTextLen}
      \cup {TextExample, DefaultBlocklist, TextShrunk, <<"a","\t","b","\t","\t","c">>, <<" ","b"," ","a"," ",",",";",","," ","a"," ","b","\r","\n","b"," ","a","\r","\n","\r","\n">>}

\* settings records of a data.json edited by hand: any text as a schedule time
EditedStarts == {<<"2","2",":","0","0">>, <<"2","5",":","6","1">>, <<"7",":","5">>}
EditedEnds   == {<<"0","5",":","0","0">>, <<"2","4",":","0","0">>}
EditedData ==
    { [ isEnabled          |-> e,
        blocklistContent   |-> DefaultBlocklist,
        nuclearModeEnabled |-> m,
        nuclearStartTime   |-> st,
        nuclearEndTime     |-> en,
        nuclearActive      |-> a ] :
      e \in BOOLEAN, m \in BOOLEAN, a \in BOOLEAN, st \in EditedStarts, en \in EditedEnds }

----------------------------------------------------------------------------
(* State                                                                   *)

NoFile == [exists |-> FALSE, text |-> <<>>]
FileOf(text) == [exists |-> TRUE, text |-> text]
NoData == [exists |-> FALSE, data |-> DEFAULT_SETTINGS]
DataOf(s) == [exists |-> TRUE, data |-> s]

IdleToggle == [pc |-> "idle", value |-> FALSE]
IdleSave == [pc |-> "idle", button |-> FALSE, content |-> <<>>]

NoLock == [on |-> FALSE, start |-> <<>>, end |-> <<>>, baseline |-> <<>>]

\* an address field of the document: not there, there without an <input>, or
\* there with an <input> holding value
Absent == [kind |-> "absent", value |-> <<>>]
NoInput == [kind |-> "noinput", value |-> <<>>]
Showing(value) == [kind |-> "input", value |-> value]
EmptyDom == [f \in FieldIds |-> Absent]
DomsOver(addresses) ==
    [FieldIds -> {Absent, NoInput, Showing(<<>>)} \cup {Showing(a) : a \in addresses}]

\* the record of a scan tick: its parity (it alternates from tick to tick), the
\* document it saw, the closes it requested for each field, and whether
\* getMostRecentLeaf() returned a panel
NoTick == [ran |-> FALSE, parity |-> FALSE, seen |-> EmptyDom,
           closes |-> [f \in FieldIds |-> 0], leaf |-> FALSE]

NoProbe == [fn |-> "none"]

\* the fields of a new plugin instance (main.ts:24-30), no handler running
NewInstance ==
    /\ phase = "constructed"
    /\ settings = DEFAULT_SETTINGS
    /\ intervalId = 0
    /\ nuclearTimerId = 0
    /\ scanTimers = 0
    /\ nuclearTimers = 0
    /\ addressValues = <<>>
    /\ stringsToCheck = <<>>
    /\ originalBlocklist = <<>>
    /\ toggleH = IdleToggle
    /\ saveH = IdleSave
    /\ notices = {}
    /\ tick = NoTick
    /\ lockWindow = NoLock
    /\ probe = NoProbe

\* a first run: neither data.json nor the blocklist file exists
Init ==
    /\ NewInstance
    /\ file = NoFile
    /\ persisted = NoData
    /\ now \in {ClockTimes[i] : i \in 1..Len(ClockTimes)}

\* a new instance on which single methods are called
InitFn ==
    /\ NewInstance
    /\ file = NoFile
    /\ persisted = NoData
    /\ now = ClockTimes[1]

\* a run over a data.json whose schedule was written outside the settings tab:
\* loadSettings takes the record as it is
InitEdited ==
    /\ NewInstance
    /\ file = NoFile
    /\ persisted \in {DataOf(d) : d \in EditedData}
    /\ now \in {ClockTimes[i] : i \in 1..Len(ClockTimes)}

----------------------------------------------------------------------------
(* Timers                                                                  *)

\* window.clearInterval(id) on a table holding live timers of that kind
ClearInterval(id, live) == IF id # 0 /\ live > 0 THEN live - 1 ELSE live

\* startMonitoring / startNuclearTimer: clear the interval held, then set a new
\* one; the result is the handle field and the number of live intervals
StartInterval(id, live) == [id |-> 1, live |-> ClearInterval(id, live) + 1]

startMonitoring(id, live) == StartInterval(id, live)

stopMonitoring(id, live) ==
    IF id # 0 THEN [id |-> 0, live |-> ClearInterval(id, live)]
    ELSE [id |-> id, live |-> live]

startNuclearTimer(id, live) == StartInterval(id, live)

----------------------------------------------------------------------------
(* Nuclear Mode                                                            *)

\* a faulty variant of enforceNuclearMode: blocking is left as it is
enforceNuclearModeUnforced(s, id, live) ==
    [ original |-> s.blocklistContent,
      settings |-> s,
      scan     |-> [id |-> id, live |-> live],
      notices  |-> {NoticeActivated} ]

\* enforceNuclearMode, as the new values of the fields it writes
enforceNuclearMode(s, id, live) ==
    [ original |-> s.blocklistContent,
      settings |-> [s EXCEPT !.isEnabled = TRUE],
      scan     |-> IF ~s.isEnabled THEN startMonitoring(id, live)
                   ELSE [id |-> id, live |-> live],
      notices  |-> {NoticeActivated} ]

\* a faulty variant of releaseNuclearMode: blocking is switched off again
releaseNuclearModeRestoring(s) ==
    [ settings |-> [s EXCEPT !.isEnabled = FALSE],
      notices  |-> {NoticeDeactivated} ]

\* releaseNuclearMode, as the new values of the fields it writes: a notice only
releaseNuclearMode(s) ==
    [ settings |-> s,
      notices  |-> {NoticeDeactivated} ]

\* history: the schedule and baseline text at an Inactive-to-Active
\* transition, kept while the clock stays inside that schedule's window
LockAt(lock, wasActive, s, original) ==
    IF ~wasActive /\ s.nuclearActive /\ ~lock.on
    THEN [on |-> TRUE, start |-> s.nuclearStartTime, end |-> s.nuclearEndTime,
          baseline |-> original]
    ELSE lock

----------------------------------------------------------------------------
(* Lifecycle                                                               *)

\* a faulty variant of loadedKeywords: the settings text is parsed even when the
\* file operations failed
loadedKeywordsKept(io, s) == parseBlocklist(s.blocklistContent)

\* the keyword list loadBlocklist leaves: the parse of the settings text, or of the
\* default text when a file operation threw
loadedKeywords(io, s) ==
    IF io = "ok" THEN parseBlocklist(s.blocklistContent)
    ELSE parseBlocklist(DEFAULT_SETTINGS.blocklistContent)

\* onload, on a new plugin instance. io: whether the file operations of
\* loadBlocklist succeed ("ok") or one of them throws ("fail").
OnLoad(io) ==
    /\ phase \in {"constructed", "unloaded"}
    /\ toggleH = IdleToggle /\ saveH = IdleSave
    /\ LET \* loadSettings
           s0    == IF persisted.exists THEN persisted.data ELSE DEFAULT_SETTINGS
           \* loadBlocklist
           read  == io = "ok" /\ file.exists /\ file.text # <<>>
           s1    == IF read THEN [s0 EXCEPT !.blocklistContent = file.text] ELSE s0
           keys  == loadedKeywords(io, s1)
           \* if (this.settings.isEnabled) this.startMonitoring()
           scan1 == IF s1.isEnabled THEN startMonitoring(0, scanTimers)
                    ELSE [id |-> 0, live |-> scanTimers]
           \* if (this.settings.nuclearModeEnabled) ...
           s2    == IF s1.nuclearModeEnabled
                    THEN [s1 EXCEPT !.nuclearActive = checkNuclearStatus(s1, now)]
                    ELSE s1
           enter == s1.nuclearModeEnabled /\ s2.nuclearActive
           enf   == enforceNuclearMode(s2, scan1.id, scan1.live)
           poll  == IF s1.nuclearModeEnabled THEN startNuclearTimer(0, nuclearTimers)
                    ELSE [id |-> 0, live |-> nuclearTimers]
       IN  /\ settings' = IF enter THEN enf.settings ELSE s2
           /\ originalBlocklist' = IF enter THEN enf.original ELSE <<>>
           /\ intervalId' = IF enter THEN enf.scan.id ELSE scan1.id
           /\ scanTimers' = IF enter THEN enf.scan.live ELSE scan1.live
           /\ nuclearTimerId' = poll.id
           /\ nuclearTimers' = poll.live
           /\ stringsToCheck' = keys
           /\ file' = IF io = "ok" /\ ~file.exists THEN FileOf(s0.blocklistContent)
                      ELSE file
           /\ persisted' = IF read THEN DataOf(s1) ELSE persisted
           /\ notices' = IF enter THEN enf.notices ELSE {}
           /\ lockWindow' = LockAt(NoLock, FALSE, settings', originalBlocklist')
    /\ phase' = "loaded"
    /\ addressValues' = <<>>
    /\ tick' = NoTick
    /\ UNCHANGED <<now, toggleH, saveH, probe>>

\* onunload
OnUnload ==
    /\ phase = "loaded"
    /\ LET scan == stopMonitoring(intervalId, scanTimers)
       IN  /\ intervalId' = scan.id
           /\ scanTimers' = scan.live
    /\ nuclearTimers' = ClearInterval(nuclearTimerId, nuclearTimers)
    /\ phase' = "unloaded"
    /\ notices' = {}
    /\ lockWindow' = NoLock
    /\ UNCHANGED <<settings, nuclearTimerId, addressValues, stringsToCheck,
                   originalBlocklist, file, persisted, now, toggleH, saveH, tick, probe>>

----------------------------------------------------------------------------
(* Settings tab: the blocking toggle                                       *)

\* onChange(value) up to its await: the Nuclear Mode guard, the assignment and the
\* call of saveSettings
ToggleStart(value) ==
    /\ phase = "loaded"
    /\ toggleH.pc = "idle"
    /\ IF ~value /\ settings.nuclearActive
       THEN /\ notices' = {NoticeCannotDisable}
            /\ UNCHANGED <<settings, persisted, toggleH>>
       ELSE /\ settings' = [settings EXCEPT !.isEnabled = value]
            /\ persisted' = DataOf(settings')
            /\ toggleH' = [pc |-> "await", value |-> value]
            /\ notices' = {}
    /\ UNCHANGED <<phase, intervalId, nuclearTimerId, scanTimers, nuclearTimers,
                   addressValues, stringsToCheck, originalBlocklist, file, now, saveH,
                   tick, lockWindow, probe>>

\* onChange(value) after its await: start or stop monitoring
ToggleFinish ==
    /\ toggleH.pc = "await"
    /\ LET scan == IF toggleH.value THEN startMonitoring(intervalId, scanTimers)
                   ELSE stopMonitoring(intervalId, scanTimers)
       IN  /\ intervalId' = scan.id
           /\ scanTimers' = scan.live
    /\ toggleH' = IdleToggle
    /\ notices' = {}
    /\ UNCHANGED <<phase, settings, nuclearTimerId, nuclearTimers, addressValues,
                   stringsToCheck, originalBlocklist, file, persisted, now, saveH, tick,
                   lockWindow, probe>>

----------------------------------------------------------------------------
(* Settings tab: the blocklist editor                                      *)

\* the click / input listener up to its first await: the editor's text becomes
\* settings.blocklistContent and saveSettings is called
SaveStart(text, button) ==
    /\ phase = "loaded"
    /\ saveH.pc = "idle"
    /\ settings' = [settings EXCEPT !.blocklistContent = text]
    /\ persisted' = DataOf(settings')
    /\ saveH' = [pc |-> "settings", button |-> button, content |-> <<>>]
    /\ notices' = {}
    /\ UNCHANGED <<phase, intervalId, nuclearTimerId, scanTimers, nuclearTimers,
                   addressValues, stringsToCheck, originalBlocklist, file, now, toggleH,
                   tick, lockWindow, probe>>

\* the entries of the baseline that the current text lacks
missingEntries(original, content) ==
    SelectSeq(parseBlocklist(original),
              LAMBDA entry : ~Member(parseBlocklist(content), entry))

\* a faulty variant of mergedContent: the proposed entries alone
mergedContentDropping(original, content) == Join(parseBlocklist(content), Newline)

\* [...new Set([...originalEntries, ...currentEntries])].join('\n')
mergedContent(original, content) ==
    Join(Dedup(parseBlocklist(original) \o parseBlocklist(content)), Newline)

\* the text saveBlocklist goes on with: lines 106-133
enforcedContent(s, original) ==
    IF s.nuclearActive /\ missingEntries(original, s.blocklistContent) # <<>>
    THEN mergedContent(original, s.blocklistContent)
    ELSE s.blocklistContent

\* saveBlocklist up to its await: the Nuclear Mode merge and the call of
\* adapter.write with the resulting text
SaveBlocklistBegin ==
    /\ saveH.pc = "settings"
    /\ settings' = [settings EXCEPT
                      !.blocklistContent = enforcedContent(settings, originalBlocklist)]
    /\ notices' = IF settings.nuclearActive
                     /\ missingEntries(originalBlocklist, settings.blocklistContent) # <<>>
                  THEN {NoticeRemovalRefused} ELSE {}
    /\ saveH' = [saveH EXCEPT !.pc = "write", !.content = settings'.blocklistContent]
    /\ UNCHANGED <<phase, intervalId, nuclearTimerId, scanTimers, nuclearTimers,
                   addressValues, stringsToCheck, originalBlocklist, file, persisted, now,
                   toggleH, tick, lockWindow, probe>>

\* saveBlocklist after its await: the write succeeded (ok) or threw, and the
\* listener's notice
SaveBlocklistEnd(ok) ==
    /\ saveH.pc = "write"
    /\ IF ok
       THEN /\ file' = FileOf(saveH.content)
            /\ stringsToCheck' = parseBlocklist(settings.blocklistContent)
       ELSE UNCHANGED <<file, stringsToCheck>>
    /\ notices' = IF ~saveH.button THEN {}
                  ELSE IF ok THEN {NoticeSaved} ELSE {NoticeSaveFailed}
    /\ saveH' = IdleSave
    /\ UNCHANGED <<phase, settings, intervalId, nuclearTimerId, scanTimers, nuclearTimers,
                   addressValues, originalBlocklist, persisted, now, toggleH, tick,
                   lockWindow, probe>>

----------------------------------------------------------------------------
(* Settings tab: Nuclear Mode                                              *)

\* the Enable Nuclear Mode toggle's onChange
SetNuclearModeEnabled(value) ==
    /\ phase = "loaded"
    /\ settings' = [settings EXCEPT !.nuclearModeEnabled = value]
    /\ persisted' = DataOf(settings')
    /\ notices' = {}
    /\ UNCHANGED <<phase, intervalId, nuclearTimerId, scanTimers, nuclearTimers,
                   addressValues, stringsToCheck, originalBlocklist, file, now, toggleH,
                   saveH, tick, lockWindow, probe>>

\* the start time field's onChange (the field is rendered when the mode is enabled)
SetStartTime(value) ==
    /\ phase = "loaded"
    /\ settings.nuclearModeEnabled
    /\ IF isValidTimeFormat(value)
       THEN /\ settings' = [settings EXCEPT !.nuclearStartTime = value]
            /\ persisted' = DataOf(settings')
       ELSE UNCHANGED <<settings, persisted>>
    /\ notices' = {}
    /\ UNCHANGED <<phase, intervalId, nuclearTimerId, scanTimers, nuclearTimers,
                   addressValues, stringsToCheck, originalBlocklist, file, now, toggleH,
                   saveH, tick, lockWindow, probe>>

\* the end time field's onChange
SetEndTime(value) ==
    /\ phase = "loaded"
    /\ settings.nuclearModeEnabled
    /\ IF isValidTimeFormat(value)
       THEN /\ settings' = [settings EXCEPT !.nuclearEndTime = value]
            /\ persisted' = DataOf(settings')
       ELSE UNCHANGED <<settings, persisted>>
    /\ notices' = {}
    /\ UNCHANGED <<phase, intervalId, nuclearTimerId, scanTimers, nuclearTimers,
                   addressValues, stringsToCheck, originalBlocklist, file, now, toggleH,
                   saveH, tick, lockWindow, probe>>

\* a faulty variant of HasValidTimes: no validation
HasValidTimesUnchecked(s) == TRUE

\* the validation that opens showNuclearConfirmation and activateNuclearSchedule
HasValidTimes(s) ==
    isValidTimeFormat(s.nuclearStartTime) /\ isValidTimeFormat(s.nuclearEndTime)

\* activateNuclearSchedule, as the new values of the fields it writes
activateNuclearSchedule(s, original, scanId, scanLive, pollId, pollLive, saved, t) ==
    IF ~HasValidTimes(s)
    THEN [ settings |-> s, original |-> original,
           scan |-> [id |-> scanId, live |-> scanLive],
           poll |-> [id |-> pollId, live |-> pollLive],
           persisted |-> saved, notices |-> {NoticeInvalidTimes} ]
    ELSE LET s1  == [s EXCEPT !.nuclearModeEnabled = TRUE]
             s2  == [s1 EXCEPT !.nuclearActive = TRUE]
             enf == enforceNuclearMode(s2, scanId, scanLive)
         IN  IF checkNuclearStatus(s1, t)
             THEN [ settings |-> enf.settings, original |-> enf.original,
                    scan |-> enf.scan,
                    poll |-> startNuclearTimer(pollId, pollLive),
                    persisted |-> DataOf(s1), notices |-> enf.notices ]
             ELSE [ settings |-> s1, original |-> original,
                    scan |-> [id |-> scanId, live |-> scanLive],
                    poll |-> startNuclearTimer(pollId, pollLive),
                    persisted |-> DataOf(s1), notices |-> {} ]

\* Activate Schedule (the button is rendered when the mode is enabled):
\* showNuclearConfirmation, which opens no dialog on an invalid time, and on
\* Confirm Schedule the call of activateNuclearSchedule and the closing notice
Activate ==
    /\ phase = "loaded"
    /\ settings.nuclearModeEnabled
    /\ IF ~HasValidTimes(settings)
       THEN /\ notices' = {NoticeInvalidTimes}
            /\ UNCHANGED <<settings, originalBlocklist, intervalId, scanTimers,
                           nuclearTimerId, nuclearTimers, persisted, lockWindow>>
       ELSE LET r == activateNuclearSchedule(settings, originalBlocklist, intervalId,
                                             scanTimers, nuclearTimerId, nuclearTimers,
                                             persisted, now)
            IN  /\ settings' = r.settings
                /\ originalBlocklist' = r.original
                /\ intervalId' = r.scan.id
                /\ scanTimers' = r.scan.live
                /\ nuclearTimerId' = r.poll.id
                /\ nuclearTimers' = r.poll.live
                /\ persisted' = r.persisted
                /\ notices' = r.notices \cup {NoticeScheduleOn}
                /\ lockWindow' = LockAt(lockWindow, settings.nuclearActive, r.settings,
                                        r.original)
    /\ UNCHANGED <<phase, addressValues, stringsToCheck, file, now, toggleH, saveH,
                   tick, probe>>

\* a faulty variant of StatusChanged: every poll counts as a change
StatusChangedAlways(wasActive, isActive) == TRUE

\* a faulty variant of StatusChanged: no poll counts as a change
StatusChangedNever(wasActive, isActive) == FALSE

\* if (wasActive !== this.settings.nuclearActive)
StatusChanged(wasActive, isActive) == wasActive # isActive

\* one run of the 60 s interval callback of startNuclearTimer
NuclearTick ==
    /\ nuclearTimers > 0
    /\ LET wasActive == settings.nuclearActive
           s1  == [settings EXCEPT !.nuclearActive = checkNuclearStatus(settings, now)]
           enf == enforceNuclearMode(s1, intervalId, scanTimers)
       IN  IF ~StatusChanged(wasActive, s1.nuclearActive)
           THEN /\ notices' = {}
                /\ UNCHANGED <<settings, originalBlocklist, intervalId, scanTimers,
                               persisted, lockWindow>>
           ELSE IF s1.nuclearActive
           THEN /\ settings' = enf.settings
                /\ originalBlocklist' = enf.original
                /\ intervalId' = enf.scan.id
                /\ scanTimers' = enf.scan.live
                /\ notices' = enf.notices
                /\ persisted' = DataOf(settings')
                /\ lockWindow' = LockAt(lockWindow, wasActive, settings',
                                        originalBlocklist')
           ELSE /\ settings' = releaseNuclearMode(s1).settings
                /\ notices' = releaseNuclearMode(s1).notices
                /\ persisted' = DataOf(settings')
                /\ UNCHANGED <<originalBlocklist, intervalId, scanTimers, lockWindow>>
    /\ UNCHANGED <<phase, nuclearTimerId, nuclearTimers, addressValues, stringsToCheck,
                   file, now, toggleH, saveH, tick, probe>>

\* the clock reaches the next of its times; the history of the window that
\* Nuclear Mode started in ends when the clock leaves that window
ClockAdvance ==
    /\ \E i \in 1..Len(ClockTimes) :
         /\ now = ClockTimes[i]
         /\ now' = ClockTimes[(i % Len(ClockTimes)) + 1]
    /\ lockWindow' =
         IF lockWindow.on /\ ~IsWithinWindow(CurrentTimeInMinutes(now'),
                                             TimeInMinutes(lockWindow.start),
                                             TimeInMinutes(lockWindow.end))
         THEN NoLock ELSE lockWindow
    /\ UNCHANGED <<phase, settings, intervalId, nuclearTimerId, scanTimers,
                   nuclearTimers, addressValues, stringsToCheck, originalBlocklist, file,
                   persisted, toggleH, saveH, notices, tick, probe>>

----------------------------------------------------------------------------
(* Address observation loop                                                *)

\* the identities added to currentIds: the fields that have an <input>
currentIds(dom) == {f \in FieldIds : dom[f].kind = "input"}

\* a faulty variant of IsNewValue: only a field without a registry entry is new
IsNewValueFirstSight(registry, f, currentValue) ==
    currentValue # <<>> /\ f \notin DOMAIN registry

\* a faulty variant of IsNewValue: every non-empty value is new
IsNewValueAlways(registry, f, currentValue) == currentValue # <<>>

\* if (currentValue && currentValue !== previousValue)
IsNewValue(registry, f, currentValue) ==
    /\ currentValue # <<>>
    /\ (f \notin DOMAIN registry \/ registry[f] # currentValue)

\* the fields whose value the forEach records and forwards
forwardedIds(registry, dom) ==
    {f \in currentIds(dom) : IsNewValue(registry, f, dom[f].value)}

\* a faulty variant of registryAfter: the clean-up loop is not run
registryAfterUnpurged(registry, dom) ==
    [f \in DOMAIN registry \cup forwardedIds(registry, dom) |->
        IF f \in forwardedIds(registry, dom) THEN dom[f].value ELSE registry[f]]

\* the registry after the forEach and the clean-up loop
registryAfter(registry, dom) ==
    [f \in (DOMAIN registry \cup forwardedIds(registry, dom)) \cap currentIds(dom) |->
        IF f \in forwardedIds(registry, dom) THEN dom[f].value ELSE registry[f]]

\* if (addressElements.length === 0) return
NoElements(dom) == \A f \in FieldIds : dom[f].kind = "absent"

\* checkAllWebViewerAddresses: the registry it leaves
checkAllWebViewerAddresses(registry, dom) ==
    IF NoElements(dom) THEN registry ELSE registryAfter(registry, dom)

\* the fields whose value the tick passes to checkUrlForStrings
scannedIds(registry, dom) ==
    IF NoElements(dom) THEN {} ELSE forwardedIds(registry, dom)

\* one run of the 500 ms interval callback, on the document dom
ScanTick(dom, leaf, closeThrows) ==
    /\ scanTimers > 0
    /\ addressValues' = checkAllWebViewerAddresses(addressValues, dom)
    /\ tick' =
         [ ran    |-> TRUE,
           parity |-> ~tick.parity,
           seen   |-> dom,
           closes |-> [f \in FieldIds |->
                         IF f \in scannedIds(addressValues, dom)
                         THEN checkUrlForStrings(dom[f].value, settings.isEnabled,
                                                 stringsToCheck, leaf, closeThrows)
                         ELSE 0],
           leaf   |-> leaf ]
    /\ UNCHANGED <<phase, settings, intervalId, nuclearTimerId, scanTimers,
                   nuclearTimers, stringsToCheck, originalBlocklist, file, persisted,
                   now, toggleH, saveH, notices, lockWindow, probe>>

----------------------------------------------------------------------------
(* Function-level evaluation: one call of a method on a new instance, its    *)
(* arguments and its result                                                  *)

\* checkNuclearStatus() at time of day t under the schedule start - end
ProbeWindow(t, start, end) ==
    /\ probe' = [ fn     |-> "checkNuclearStatus",
                  now    |-> t,
                  start  |-> start,
                  end    |-> end,
                  result |-> checkNuclearStatus(
                               [DEFAULT_SETTINGS EXCEPT
                                  !.nuclearModeEnabled = TRUE,
                                  !.nuclearStartTime = TimeText(start),
                                  !.nuclearEndTime = TimeText(end)], t) ]
    /\ UNCHANGED <<phase, settings, intervalId, nuclearTimerId, scanTimers,
                   nuclearTimers, addressValues, stringsToCheck, originalBlocklist, file,
                   persisted, now, toggleH, saveH, notices, tick, lockWindow>>

\* isValidTimeFormat(text)
ProbeValid(text) ==
    /\ probe' = [ fn     |-> "isValidTimeFormat",
                  text   |-> text,
                  result |-> isValidTimeFormat(text) ]
    /\ UNCHANGED <<phase, settings, intervalId, nuclearTimerId, scanTimers,
                   nuclearTimers, addressValues, stringsToCheck, originalBlocklist, file,
                   persisted, now, toggleH, saveH, notices, tick, lockWindow>>

\* parseBlocklist(text), and parseBlocklist of its result joined by newlines
ProbeParse(text) ==
    /\ probe' = [ fn     |-> "parseBlocklist",
                  text   |-> text,
                  result |-> parseBlocklist(text),
                  again  |-> parseBlocklist(Join(parseBlocklist(text), Newline)) ]
    /\ UNCHANGED <<phase, settings, intervalId, nuclearTimerId, scanTimers,
                   nuclearTimers, addressValues, stringsToCheck, originalBlocklist, file,
                   persisted, now, toggleH, saveH, notices, tick, lockWindow>>

\* checkUrlForStrings(url) with settings.isEnabled = isEnabled and
\* stringsToCheck = keywords
ProbeMatch(url, isEnabled, keywords, leaf, closeThrows) ==
    /\ probe' = [ fn          |-> "checkUrlForStrings",
                  url         |-> url,
                  isEnabled   |-> isEnabled,
                  keywords    |-> keywords,
                  leaf        |-> leaf,
                  closeThrows |-> closeThrows,
                  closes      |-> checkUrlForStrings(url, isEnabled, keywords, leaf,
                                                     closeThrows) ]
    /\ UNCHANGED <<phase, settings, intervalId, nuclearTimerId, scanTimers,
                   nuclearTimers, addressValues, stringsToCheck, originalBlocklist, file,
                   persisted, now, toggleH, saveH, notices, tick, lockWindow>>

----------------------------------------------------------------------------
(* Specifications                                                          *)

\* the plugin with its settings tab, the clock and the Nuclear poll timer; the
\* runs of the scan timer's callback are in SpecScan
Next ==
    \/ \E io \in {"ok", "fail"} : OnLoad(io)
    \/ \E value \in BOOLEAN : ToggleStart(value)
    \/ ToggleFinish
    \/ \E text \in TextInputs, button \in BOOLEAN : SaveStart(text, button)
    \/ SaveBlocklistBegin
    \/ \E ok \in BOOLEAN : SaveBlocklistEnd(ok)
    \/ \E value \in BOOLEAN : SetNuclearModeEnabled(value)
    \/ \E value \in StartInputs : SetStartTime(value)
    \/ \E value \in EndInputs : SetEndTime(value)
    \/ Activate
    \/ NuclearTick
    \/ ClockAdvance

Spec == Init /\ [][Next]_vars

\* the plugin with the Nuclear Mode part of its settings tab, the clock and the
\* poll timer running: while the interval of startNuclearTimer is scheduled its
\* callback runs every 60 s, so a callback that stays due is eventually run
NextLive ==
    \/ OnLoad("ok")
    \/ \E value \in BOOLEAN : SetNuclearModeEnabled(value)
    \/ \E value \in StartInputs : SetStartTime(value)
    \/ \E value \in EndInputs : SetEndTime(value)
    \/ Activate
    \/ NuclearTick
    \/ ClockAdvance

SpecLive == Init /\ [][NextLive]_vars /\ WF_vars(NuclearTick)

\* the plugin with web viewers open: the blocking toggle, the blocklist editor and
\* the scan ticks over the documents the viewers can show
NextScan ==
    \/ OnLoad("ok")
    \/ \E value \in BOOLEAN : ToggleStart(value)
    \/ ToggleFinish
    \/ \E text \in ScanTexts : SaveStart(text, FALSE)
    \/ SaveBlocklistBegin
    \/ SaveBlocklistEnd(TRUE)
    \/ \E dom \in DomsOver(TickAddresses), leaf \in BOOLEAN :
          ScanTick(dom, leaf, FALSE)

SpecScan == Init /\ [][NextScan]_vars

\* the plugin is not enabled again once this many scan intervals are scheduled
MaxScanTimers == 2

\* the addresses of the fields in the ticks of SpecThrow: under the default
\* keywords the first makes the close call (which may throw), the second makes
\* decodeURIComponent throw, the third makes new URL throw
ThrowAddresses == {AddrRaw, AddrThrow, AddrNoScheme}

\* the plugin with web viewers open whose addresses make checkUrlForStrings run
\* into an exception
NextThrow ==
    \/ OnLoad("ok")
    \/ \E dom \in DomsOver(ThrowAddresses), leaf \in BOOLEAN, closeThrows \in BOOLEAN :
          ScanTick(dom, leaf, closeThrows)

SpecThrow == Init /\ [][NextThrow]_vars

\* the plugin and its blocklist file: startup and restart with file operations that
\* succeed or throw, and the blocklist editor with a write that succeeds or throws
NextFile ==
    \/ \E io \in {"ok", "fail"} : OnLoad(io)
    \/ OnUnload
    \/ \E text \in TextInputs, button \in BOOLEAN : SaveStart(text, button)
    \/ SaveBlocklistBegin
    \/ \E ok \in BOOLEAN : SaveBlocklistEnd(ok)

SpecFile == Init /\ [][NextFile]_vars

\* the plugin over its life: enabled, used through the blocking toggle and the
\* Nuclear Mode settings, disabled (onunload) and enabled again over the data.json
\* it wrote
NextLife ==
    \/ scanTimers < MaxScanTimers /\ OnLoad("ok")
    \/ OnUnload
    \/ \E value \in BOOLEAN : ToggleStart(value)
    \/ ToggleFinish
    \/ \E value \in BOOLEAN : SetNuclearModeEnabled(value)
    \/ Activate
    \/ NuclearTick
    \/ ClockAdvance

SpecLife == Init /\ [][NextLife]_vars

\* the plugin started over a hand-edited data.json: startup, the Activate Schedule
\* button, the poll timer and the clock
NextEdited ==
    \/ OnLoad("ok")
    \/ Activate
    \/ NuclearTick
    \/ ClockAdvance

SpecEdited == InitEdited /\ [][NextEdited]_vars

\* one call of a pure method, over its bounded inputs, in each behaviour
NextFn ==
    \/ probe = NoProbe /\ \E t \in Minutes, start \in Minutes, end \in Minutes :
                            ProbeWindow(t, start, end)
    \/ probe = NoProbe /\ \E text \in TimeTexts : ProbeValid(text)
    \/ probe = NoProbe /\ \E text \in ParseTexts : ProbeParse(text)
    \/ probe = NoProbe /\ \E url \in Addresses, isEnabled \in BOOLEAN,
                               keywords \in KeywordLists, leaf \in BOOLEAN,
                               closeThrows \in BOOLEAN :
                            ProbeMatch(url, isEnabled, keywords, leaf, closeThrows)

SpecFn == InitFn /\ [][NextFn]_vars

----------------------------------------------------------------------------
(* Properties: Nuclear Mode and the settings tab (Spec)                    *)

NuclearSaveStoresUnion ==
    [][ /\ (saveH.pc = "settings" /\ saveH'.pc = "write" /\ settings.nuclearActive) =>
             LET B == ToSet(parseBlocklist(originalBlocklist))
                 P == ToSet(parseBlocklist(settings.blocklistContent))
             IN  IF ~(B \subseteq P)
                 THEN /\ ToSet(parseBlocklist(settings'.blocklistContent)) = B \cup P
                      /\ saveH'.content = settings'.blocklistContent
                      /\ NoticeRemovalRefused \in notices'
                 ELSE /\ settings'.blocklistContent = settings.blocklistContent
                      /\ saveH'.content = settings.blocklistContent
                      /\ NoticeRemovalRefused \notin notices'
        /\ (saveH.pc = "write" /\ saveH'.pc = "idle") =>
             \/ /\ file' = FileOf(saveH.content)
                /\ settings'.blocklistContent = saveH.content
                /\ ToSet(stringsToCheck') = ToSet(parseBlocklist(saveH.content))
             \/ UNCHANGED <<file, stringsToCheck>>
      ]_vars

\* C2, its case: Nuclear Mode is Active and a completed save of TextShrunk over the
\* default baseline left the union of both in memory, in the file and as the
\* active keyword list
NuclearSaveStoredUnion ==
    /\ settings.nuclearActive
    /\ saveH.pc = "idle"
    /\ file.exists
    /\ file.text = settings.blocklistContent
    /\ ToSet(parseBlocklist(file.text)) =
         ToSet(parseBlocklist(DefaultBlocklist)) \cup ToSet(parseBlocklist(TextShrunk))
    /\ ToSet(stringsToCheck) = ToSet(parseBlocklist(file.text))

\* C3: whenever Nuclear Mode is Active and no blocklist save is in flight, the
\* active keyword list holds every keyword of the baseline snapshot
KeywordsCoverBaseline ==
    (phase = "loaded" /\ settings.nuclearActive /\ saveH.pc = "idle") =>
        ToSet(parseBlocklist(originalBlocklist)) \subseteq ToSet(stringsToCheck)

\* C4: from the moment Nuclear Mode becomes Active and for as long as the clock
\* stays inside the window configured at that moment, whenever no settings handler
\* is suspended blocking is enabled and the blocklist text holds every keyword the
\* baseline had at that moment
CommitmentHolds ==
    (lockWindow.on /\ toggleH.pc = "idle" /\ saveH.pc = "idle") =>
        /\ settings.isEnabled
        /\ ToSet(parseBlocklist(lockWindow.baseline))
              \subseteq ToSet(parseBlocklist(settings.blocklistContent))

----------------------------------------------------------------------------
(* Properties: activation over any settings record (SpecEdited)            *)

\* C9: when the Activate Schedule request finds a start or end time that the
\* validator does not accept, it shows the validation notice and nothing else:
\* settings (nuclearModeEnabled, nuclearActive, isEnabled), the baseline, both
\* timers and the persisted record are as before. The request is the step of a
\* loaded plugin that shows NoticeInvalidTimes or NoticeScheduleOn.
InvalidTimesRefuse ==
    [][ ( /\ phase = "loaded"
          /\ now' = now
          /\ (NoticeInvalidTimes \in notices' \/ NoticeScheduleOn \in notices')
          /\ \/ ~isValidTimeFormat(settings.nuclearStartTime)
             \/ ~isValidTimeFormat(settings.nuclearEndTime) )
        => /\ notices' = {NoticeInvalidTimes}
           /\ UNCHANGED <<settings, originalBlocklist, intervalId, scanTimers,
                          nuclearTimerId, nuclearTimers, persisted>>
      ]_vars

\* C9, its case: an activation request was refused over an invalid start time
InvalidTimesRefused ==
    /\ phase = "loaded"
    /\ notices = {NoticeInvalidTimes}
    /\ ~isValidTimeFormat(settings.nuclearStartTime)

----------------------------------------------------------------------------
(* Properties: the pure methods (SpecFn)                                   *)

\* C5: for the times of day now, start, end, checkNuclearStatus is
\* start <= now < end when start < end and now >= start or now < end when
\* start >= end; for the schedule 22:00 - 05:00 it is true at 23:30 and 04:59 and
\* false at 05:00, 06:00 and 21:59
WindowContainment ==
    probe.fn = "checkNuclearStatus" =>
        /\ probe.result = (IF probe.start < probe.end
                           THEN probe.start <= probe.now /\ probe.now < probe.end
                           ELSE probe.now >= probe.start \/ probe.now < probe.end)
        /\ (probe.start = 1320 /\ probe.end = 300) =>
              /\ probe.now \in {1410, 299} => probe.result
              /\ probe.now \in {300, 360, 1319} => ~probe.result

\* C5, its case: 04:59 is inside the schedule 22:00 - 05:00, which wraps midnight
WindowWrapsMidnight ==
    /\ probe.fn = "checkNuclearStatus"
    /\ probe.start = 1320 /\ probe.end = 300 /\ probe.now = 299
    /\ probe.result

\* the query-parameter values of an address as checkUrlForStrings decodes them
DecodedQueryValues(url) ==
    IF ~ParsesAsUrl(url) THEN {}
    ELSE {DecodedValue(searchParams(url)[i].value) :
            i \in {j \in 1..Len(searchParams(url)) :
                     ~DecodeThrows(searchParams(url)[j].value)}}

PlainQueryValues(url) ==
    {ToLowerCase(ReplacePlus(searchParams(url)[i].value)) :
       i \in 1..Len(searchParams(url))}

\* C13: with blocking enabled and a panel to close, an address that parses as a URL
\* and has a query parameter (of any name) whose decoded value contains a keyword
\* gets a close requested, whatever its other parameters are
MatchingParameterCloses ==
    ( /\ probe.fn = "checkUrlForStrings"
      /\ probe.isEnabled /\ probe.leaf
      /\ ParsesAsUrl(probe.url)
      /\ \E value \in PlainQueryValues(probe.url) :
            AnyKeywordIn(value, probe.keywords) )
    => probe.closes > 0

\* an address without a colon has no scheme and is no valid URL
HasNoScheme(url) == \A i \in 1..Len(url) : url[i] # ":"

\* C14: for an address that is not a valid URL the check ends without an error and
\* requests a close exactly when blocking is enabled, the raw address contains a
\* keyword (case-insensitive) and there is a panel to close; its query text is not
\* matched
InvalidUrlRawMatchOnly ==
    (probe.fn = "checkUrlForStrings" /\ HasNoScheme(probe.url)) =>
        probe.closes =
            IF /\ probe.isEnabled /\ probe.leaf
               /\ AnyKeywordIn(ToLowerCase(probe.url), probe.keywords)
            THEN 1 ELSE 0

\* C14, its case: an address without a scheme, closed on a keyword in its raw text
InvalidUrlClosed ==
    /\ probe.fn = "checkUrlForStrings"
    /\ probe.url = AddrNoScheme
    /\ probe.closes = 1

\* strict two-digit HH:MM, hour 00-23 and minute 00-59
StrictTime(text) ==
    /\ Len(text) = 5
    /\ IsDigit(text[1]) /\ IsDigit(text[2]) /\ text[3] = ":"
    /\ IsDigit(text[4]) /\ IsDigit(text[5])
    /\ DigitValue(text[1]) * 10 + DigitValue(text[2]) <= 23
    /\ DigitValue(text[4]) * 10 + DigitValue(text[5]) <= 59

\* C10: isValidTimeFormat accepts a text exactly when it is strict two-digit HH:MM
\* with hour 00-23 and minute 00-59
ValidatorIsStrict ==
    probe.fn = "isValidTimeFormat" => (probe.result <=> StrictTime(probe.text))

----------------------------------------------------------------------------
(* Properties: the address observation loop (SpecScan)                     *)

\* C6 as stated: when blocking is enabled and a field's value differs from the
\* value the tick before saw in it, is not empty and holds a keyword, the tick
\* that sees the new value requests a close, given a most-recent panel
ChangedAddressClosed ==
    [][ (tick.ran /\ tick'.parity # tick.parity) =>
          \A f \in FieldIds :
             ( /\ tick.seen[f].kind = "input"
               /\ tick'.seen[f].kind = "input"
               /\ tick'.seen[f].value # tick.seen[f].value
               /\ tick'.seen[f].value # <<>>
               /\ settings.isEnabled
               /\ tick'.leaf
               /\ AnyKeywordIn(ToLowerCase(tick'.seen[f].value), stringsToCheck) )
             => tick'.closes[f] >= 1
      ]_vars

\* C6: when blocking is enabled and a field's value is not empty, differs from the
\* value the registry holds for the field (or the registry holds none) and holds a
\* keyword of the keyword list (case-insensitive substring), the tick that sees it
\* requests a close, given a most-recent panel
NewAddressClosed ==
    [][ (tick'.parity # tick.parity) =>
          \A f \in FieldIds :
             ( /\ tick'.seen[f].kind = "input"
               /\ tick'.seen[f].value # <<>>
               /\ (f \notin DOMAIN addressValues
                     \/ addressValues[f] # tick'.seen[f].value)
               /\ settings.isEnabled
               /\ tick'.leaf
               /\ AnyKeywordIn(ToLowerCase(tick'.seen[f].value), stringsToCheck) )
             => tick'.closes[f] >= 1
      ]_vars

\* C6, its case: a tick requested a close for a field that came to show AddrRaw,
\* which holds the keyword youtube in other letter case
RawAddressClosed ==
    /\ tick.ran
    /\ \E f \in FieldIds :
          /\ tick.seen[f] = Showing(AddrRaw)
          /\ tick.closes[f] >= 1
          /\ f \in DOMAIN addressValues /\ addressValues[f] = AddrRaw

\* C8: after every scan tick the registry has entries only for fields present in
\* the document the tick saw, for every number of fields present
RegistryOnlyPresent ==
    tick.ran =>
        DOMAIN addressValues \subseteq {f \in FieldIds : tick.seen[f].kind # "absent"}

----------------------------------------------------------------------------
(* Properties: parseBlocklist (SpecFn)                                     *)

\* the text between the first and the last character of s that is not white space
Trimmed(s) ==
    IF \A i \in 1..Len(s) : IsWhite(s[i]) THEN <<>>
    ELSE SubSeq(s, CHOOSE i \in 1..Len(s) :
                     ~IsWhite(s[i]) /\ \A j \in 1..(i - 1) : IsWhite(s[j]),
                   CHOOSE i \in 1..Len(s) :
                     ~IsWhite(s[i]) /\ \A j \in (i + 1)..Len(s) : IsWhite(s[j]))

\* the pieces of s between the characters in seps: the maximal runs without one
PiecesBetween(s, seps) ==
    { SubSeq(s, i, j) : <<i, j>> \in
        { ij \in (1..(Len(s) + 1)) \X (0..Len(s)) :
            /\ ij[1] <= ij[2] + 1
            /\ \A k \in ij[1]..ij[2] : s[k] \notin seps
            /\ (ij[1] = 1 \/ s[ij[1] - 1] \in seps)
            /\ (ij[2] = Len(s) \/ s[ij[2] + 1] \in seps) } }

\* the keywords of a text: the trimmed, non-empty pieces of its lines, a line with
\* a comma, tab or semicolon cut at the runs of those
ExpectedKeywords(text) ==
    UNION { IF \E i \in 1..Len(line) : line[i] \in {",", "\t", ";"}
            THEN {Trimmed(piece) : piece \in PiecesBetween(line, {",", "\t", ";"})}
            ELSE {Trimmed(line)} : line \in PiecesBetween(text, {"\n"}) } \ {<<>>}

\* C11: parseBlocklist returns, without duplicates, exactly the trimmed non-empty
\* pieces got by splitting the text on line breaks and each line that has a comma,
\* tab or semicolon on the runs of those; the example text yields youtube, twitter,
\* instagram, facebook, reddit
ParseYieldsKeywords ==
    probe.fn = "parseBlocklist" =>
        /\ ToSet(probe.result) = ExpectedKeywords(probe.text)
        /\ \A i \in 1..Len(probe.result), j \in 1..Len(probe.result) :
              probe.result[i] = probe.result[j] => i = j
        /\ probe.text = TextExample =>
              probe.result = << <<"y","o","u","t","u","b","e">>,
                                <<"t","w","i","t","t","e","r">>,
                                <<"i","n","s","t","a","g","r","a","m">>,
                                <<"f","a","c","e","b","o","o","k">>,
                                <<"r","e","d","d","i","t">> >>

\* C11, its case: the example text parsed into its five keywords
ParsedExample ==
    /\ probe.fn = "parseBlocklist"
    /\ probe.text = TextExample
    /\ Len(probe.result) = 5

\* C12: parsing the newline-joined result of parseBlocklist(x) yields the same
\* keyword set as parseBlocklist(x)
ParseIdempotent ==
    probe.fn = "parseBlocklist" => ToSet(probe.again) = ToSet(probe.result)

\* C12, its case: a text whose keywords come from a separator line with spaces
\* and a repeated keyword, parsed again from its joined result
ParsedAgain ==
    /\ probe.fn = "parseBlocklist"
    /\ Len(probe.result) = 2
    /\ Len(probe.text) > Len(Join(probe.result, Newline))
    /\ \E i \in 1..Len(probe.text) : probe.text[i] = ","
    /\ probe.again = probe.result

----------------------------------------------------------------------------
(* Properties: Nuclear Mode transitions                                    *)

\* a step that takes Nuclear Mode from Inactive to Active: a poll tick or an
\* activation that finds the clock inside the window while the flag is false, or a
\* startup that does
EntersNuclear ==
    \/ phase = "loaded" /\ ~settings.nuclearActive /\ settings'.nuclearActive
    \/ /\ phase = "constructed" /\ phase' = "loaded"
       /\ settings'.nuclearModeEnabled /\ settings'.nuclearActive

\* C15: on every Inactive-to-Active transition (poll tick, startup inside the
\* window, activation inside the window) the current blocklist text becomes the
\* baseline, isEnabled is true afterwards, and if blocking was disabled the
\* address-scan loop is scheduled
EnterSnapshotsAndEnables ==
    [][ EntersNuclear =>
          /\ originalBlocklist' = settings'.blocklistContent
          /\ phase = "loaded" => settings'.blocklistContent = settings.blocklistContent
          /\ settings'.isEnabled
          /\ (IF phase = "loaded" THEN ~settings.isEnabled
              ELSE ~persisted.data.isEnabled)
               => intervalId' # 0 /\ scanTimers' > 0 ]_vars

\* C15, its case: Nuclear Mode entered over a settings record with blocking
\* disabled
EnteredFromDisabled ==
    /\ phase = "loaded"
    /\ settings.nuclearActive /\ settings.isEnabled
    /\ ~persisted.data.isEnabled
    /\ NoticeActivated \in notices
    /\ originalBlocklist = settings.blocklistContent
    /\ intervalId # 0

\* C16: a poll tick whose recomputed window status equals the stored nuclearActive
\* flag changes neither the baseline, the settings (isEnabled among them), the
\* timers nor the persisted record and shows no notice; a poll tick that changes
\* one of them or shows a notice is one where the flag flips
TickIsEdgeTriggered ==
    [][ NuclearTick =>
          /\ checkNuclearStatus(settings, now) = settings.nuclearActive =>
                /\ UNCHANGED <<originalBlocklist, settings, intervalId, scanTimers,
                               nuclearTimerId, nuclearTimers, persisted, stringsToCheck,
                               file>>
                /\ notices' = {}
          /\ ( \/ originalBlocklist' # originalBlocklist
               \/ settings'.isEnabled # settings.isEnabled
               \/ intervalId' # intervalId \/ scanTimers' # scanTimers
               \/ persisted' # persisted
               \/ notices' # {} )
               => settings'.nuclearActive # settings.nuclearActive ]_vars

\* C16, its case: Nuclear Mode Active inside its window after a poll tick that
\* found the status unchanged (the notices of the activation are gone)
TickedWithoutFlip ==
    /\ phase = "loaded"
    /\ nuclearTimers > 0
    /\ settings.nuclearModeEnabled /\ settings.nuclearActive
    /\ checkNuclearStatus(settings, now)
    /\ originalBlocklist = settings.blocklistContent
    /\ notices = {}

\* C17: while Nuclear Mode stays Active no step (poll tick, blocklist save,
\* activation of the schedule, toggle change) changes the baseline snapshot
BaselineFixedWhileActive ==
    [][ (phase = "loaded" /\ settings.nuclearActive /\ settings'.nuclearActive)
          => originalBlocklist' = originalBlocklist ]_vars

\* C18: a step that takes Nuclear Mode from Active to Inactive shows a notice and
\* changes nothing else: isEnabled, the blocklist text, the keyword list, the
\* baseline, the blocklist file and the timers are as before; with Nuclear Mode
\* Inactive a request to disable blocking is accepted and saveBlocklist keeps the
\* text it is given
ReleaseOnlyNotifies ==
    [][ /\ (phase = "loaded" /\ settings.nuclearActive /\ ~settings'.nuclearActive) =>
              /\ settings' = [settings EXCEPT !.nuclearActive = FALSE]
              /\ UNCHANGED <<stringsToCheck, intervalId, scanTimers, nuclearTimerId,
                             nuclearTimers, originalBlocklist, file>>
              /\ notices' = {NoticeDeactivated}
        /\ (~settings.nuclearActive /\ ToggleStart(FALSE)) =>
              ~settings'.isEnabled /\ notices' = {}
        /\ (~settings.nuclearActive /\ SaveBlocklistBegin) =>
              settings'.blocklistContent = settings.blocklistContent /\ notices' = {}
      ]_vars

\* C18, its case: Nuclear Mode just left with the blocking it had forced on still
\* on and the scan loop still scheduled
ReleasedKeepsBlocking ==
    /\ phase = "loaded"
    /\ notices = {NoticeDeactivated}
    /\ ~settings.nuclearActive
    /\ settings.isEnabled /\ intervalId # 0 /\ scanTimers > 0
    /\ originalBlocklist # <<>>

\* C19: when onload has run, nuclearActive is true exactly when the schedule is
\* enabled and the clock is inside the window, whatever the persisted record held;
\* and when it is true the baseline is the blocklist text and blocking is enabled
StartupRecomputesStatus ==
    [][ (phase = "constructed" /\ phase' = "loaded") =>
          /\ settings'.nuclearActive <=>
                ( /\ settings'.nuclearModeEnabled
                  /\ IsWithinWindow(CurrentTimeInMinutes(now),
                                    TimeInMinutes(settings'.nuclearStartTime),
                                    TimeInMinutes(settings'.nuclearEndTime)) )
          /\ settings'.nuclearActive =>
                /\ originalBlocklist' = settings'.blocklistContent
                /\ settings'.isEnabled ]_vars

----------------------------------------------------------------------------
(* Properties: the poll timer (SpecLive)                                   *)

\* the schedule is activated: the poll timer is scheduled and the mode enabled
Armed == phase = "loaded" /\ nuclearTimers > 0 /\ settings.nuclearModeEnabled

\* the clock is inside the window of the schedule
InsideWindow ==
    IsWithinWindow(CurrentTimeInMinutes(now), TimeInMinutes(settings.nuclearStartTime),
                   TimeInMinutes(settings.nuclearEndTime))

\* C20: with the schedule activated, once the clock is inside the window Nuclear
\* Mode becomes Active unless the clock leaves the window (or the schedule is
\* withdrawn) before the poll callback runs; once the clock is outside the window
\* Nuclear Mode becomes Inactive unless the clock enters it again before
PollFollowsClock ==
    /\ (Armed /\ InsideWindow /\ ~settings.nuclearActive)
          ~> (settings.nuclearActive \/ ~InsideWindow \/ ~Armed)
    /\ (Armed /\ ~InsideWindow /\ settings.nuclearActive)
          ~> (~settings.nuclearActive \/ InsideWindow \/ ~Armed)

\* C20, its case: the poll callback found the clock inside the window and made
\* Nuclear Mode Active
PollActivated ==
    /\ Armed /\ InsideWindow
    /\ settings.nuclearActive
    /\ notices = {NoticeActivated}

----------------------------------------------------------------------------
(* Properties: timers and restarts (SpecLife)                              *)

\* C21: at most one address-scan interval and at most one poll interval are
\* scheduled at any time, and after onunload none is
TimersSingleAndStopped ==
    /\ scanTimers <= 1 /\ nuclearTimers <= 1
    /\ phase = "unloaded" => scanTimers = 0 /\ nuclearTimers = 0

----------------------------------------------------------------------------
(* Properties: one call of checkUrlForStrings (SpecFn)                     *)

\* C22: one call of checkUrlForStrings requests at most one close, however many
\* keywords or parameters match
AtMostOneClose ==
    probe.fn = "checkUrlForStrings" => probe.closes <= 1

----------------------------------------------------------------------------
(* Properties: the registry in a scan tick (SpecScan)                      *)

\* C23: in each scan tick a field's value is stored in the registry and passed to
\* checkUrlForStrings exactly when it is not empty and differs from the value the
\* registry holds for the field; an empty or unchanged value leaves the field's
\* entry as it is and is not passed on (no close is requested for it)
RecordedAndForwardedIffNew ==
    [][ (tick'.parity # tick.parity) =>
          \A f \in FieldIds :
             IF /\ tick'.seen[f].kind = "input"
                /\ tick'.seen[f].value # <<>>
                /\ (f \notin DOMAIN addressValues
                      \/ addressValues[f] # tick'.seen[f].value)
             THEN /\ f \in DOMAIN addressValues'
                  /\ addressValues'[f] = tick'.seen[f].value
                  /\ tick'.closes[f] =
                        checkUrlForStrings(tick'.seen[f].value, settings.isEnabled,
                                           stringsToCheck, tick'.leaf, FALSE)
             ELSE /\ tick'.closes[f] = 0
                  /\ tick'.seen[f].kind = "input" =>
                        /\ (f \in DOMAIN addressValues') = (f \in DOMAIN addressValues)
                        /\ f \in DOMAIN addressValues =>
                              addressValues'[f] = addressValues[f]
      ]_vars

\* C23, its case: a tick that stored and closed one field's new address and left
\* the other field, whose value is empty, without an entry
NewRecordedEmptyNot ==
    /\ tick.ran
    /\ \E f \in FieldIds, g \in FieldIds :
          /\ f # g
          /\ tick.seen[f] = Showing(AddrRaw)
          /\ f \in DOMAIN addressValues /\ addressValues[f] = AddrRaw
          /\ tick.closes[f] = 1
          /\ tick.seen[g] = Showing(<<>>)
          /\ g \notin DOMAIN addressValues
          /\ tick.closes[g] = 0

----------------------------------------------------------------------------
(* Properties: exceptions in a scan tick (SpecThrow)                       *)

\* checkUrlForStrings(url) runs into an exception: the close call throws, new URL
\* throws on an address that is no URL, or decodeURIComponent throws on a
\* parameter value
RaisesException(url, leaf) ==
    /\ settings.isEnabled
    /\ IF AnyKeywordIn(ToLowerCase(url), stringsToCheck) THEN leaf
       ELSE \/ HasNoScheme(url)
            \/ \E i \in 1..Len(searchParams(url)) :
                  DecodeThrows(searchParams(url)[i].value)

\* the field f shows a value the tick has to record and check
IsNewIn(registry, dom, f) ==
    /\ dom[f].kind = "input"
    /\ dom[f].value # <<>>
    /\ (f \notin DOMAIN registry \/ registry[f] # dom[f].value)

\* C24: in a tick in which the check of one field's address runs into an exception
\* (new URL, decodeURIComponent or, when it throws, the close call), every other
\* field with a new value is still recorded and checked, the registry is purged of
\* the fields without an <input>, and the scan timer stays scheduled
ExceptionKeepsTickGoing ==
    [][ (tick'.parity # tick.parity) =>
          \A f \in FieldIds :
             ( /\ IsNewIn(addressValues, tick'.seen, f)
               /\ RaisesException(tick'.seen[f].value, tick'.leaf) )
             => /\ \A g \in FieldIds \ {f} :
                      IsNewIn(addressValues, tick'.seen, g) =>
                         /\ g \in DOMAIN addressValues'
                         /\ addressValues'[g] = tick'.seen[g].value
                         /\ AnyKeywordIn(ToLowerCase(tick'.seen[g].value), stringsToCheck)
                               /\ tick'.leaf => tick'.closes[g] = 1
                /\ DOMAIN addressValues'
                      \subseteq {g \in FieldIds : tick'.seen[g].kind = "input"}
                /\ intervalId' = intervalId /\ intervalId' # 0
                /\ scanTimers' = scanTimers /\ scanTimers' > 0
      ]_vars

\* C24, its case: a tick in which decodeURIComponent threw on the address of one
\* field and the other field's blocked address was still recorded and closed
ClosedBesideException ==
    /\ tick.ran /\ tick.leaf
    /\ \E f \in FieldIds, g \in FieldIds :
          /\ tick.seen[f] = Showing(AddrThrow)
          /\ f \in DOMAIN addressValues /\ addressValues[f] = AddrThrow
          /\ tick.closes[f] = 0
          /\ tick.seen[g] = Showing(AddrRaw)
          /\ g \in DOMAIN addressValues /\ addressValues[g] = AddrRaw
          /\ tick.closes[g] = 1

----------------------------------------------------------------------------
(* Properties: blocklist file failures (SpecFile)                          *)

\* C25: when the write of the blocklist file fails, saveBlocklist ends with the
\* keyword list as it was, the listener of the save button shows the failure
\* notice, and plugin and timers go on as before; when a file operation of
\* loadBlocklist fails, onload completes with the parse of the default text as
\* keyword list
FileFailuresRecovered ==
    [][ /\ SaveBlocklistEnd(FALSE) =>
              /\ stringsToCheck' = stringsToCheck
              /\ file' = file
              /\ saveH.button => notices' = {NoticeSaveFailed}
              /\ UNCHANGED <<phase, intervalId, scanTimers, nuclearTimerId,
                             nuclearTimers>>
        /\ OnLoad("fail") =>
              /\ phase' = "loaded"
              /\ ToSet(stringsToCheck')
                    = { <<"y","o","u","t","u","b","e">>, <<"t","w","i","t","t","e","r">>,
                        <<"f","a","c","e","b","o","o","k">>, <<"r","e","d","d","i","t">> }
      ]_vars

\* C25, its case: the settings hold the editor's text while the keyword list is
\* the one of the default text, after a failed write or a failed load
KeywordsAfterFailure ==
    /\ phase = "loaded" /\ saveH = IdleSave
    /\ settings.blocklistContent = TextShrunk
    /\ stringsToCheck = parseBlocklist(DefaultBlocklist)

----------------------------------------------------------------------------
(* Properties: what a save under Nuclear Mode persists (Spec)              *)

\* C26: when the save handler completes with Nuclear Mode Active, after
\* saveBlocklist replaced a proposal that lacks baseline keywords by its union with
\* the baseline, the blocklistContent of the persisted settings record and the
\* blocklist file both hold every keyword of the baseline
PersistedCoversBaseline ==
    [][ ( /\ saveH.pc = "write" /\ saveH'.pc = "idle"
          /\ settings.nuclearActive
          /\ \E text \in TextInputs :
                /\ missingEntries(originalBlocklist, text) # <<>>
                /\ saveH.content = mergedContent(originalBlocklist, text) ) =>
          /\ ToSet(parseBlocklist(originalBlocklist))
                \subseteq ToSet(parseBlocklist(persisted'.data.blocklistContent))
          /\ ToSet(parseBlocklist(originalBlocklist))
                \subseteq ToSet(parseBlocklist(file'.text))
      ]_vars

----------------------------------------------------------------------------
(* Properties: fields that disappear and come back (SpecScan)              *)

\* C27: a field that was absent from the document in the tick before and is there
\* again showing an address that holds a keyword gets a close requested (with
\* blocking enabled and a panel to close), whatever it showed before it
\* disappeared and whether or not other fields were present meanwhile
ReappearedAddressClosed ==
    [][ (tick.ran /\ tick'.parity # tick.parity) =>
          \A f \in FieldIds :
             ( /\ tick.seen[f].kind = "absent"
               /\ tick'.seen[f].kind = "input"
               /\ tick'.seen[f].value # <<>>
               /\ settings.isEnabled
               /\ tick'.leaf
               /\ AnyKeywordIn(ToLowerCase(tick'.seen[f].value), stringsToCheck) )
             => tick'.closes[f] >= 1
      ]_vars

----------------------------------------------------------------------------
(* Properties: the enabled flag and the scan timer (Spec)                  *)

\* C28: while the plugin is loaded and no settings handler is suspended at an
\* await, blocking is enabled exactly when the address-scan timer is scheduled
EnabledIffScanning ==
    (phase = "loaded" /\ toggleH.pc = "idle" /\ saveH.pc = "idle") =>
        (settings.isEnabled <=> (intervalId # 0 /\ scanTimers > 0))

----------------------------------------------------------------------------
(* Properties: Nuclear Mode and its poll timer (SpecLife)                  *)

\* C29: while the plugin is loaded, also after a restart over the settings
\* record it persisted itself, Nuclear Mode being Active implies that the
\* schedule is enabled and the poll timer that can end it is scheduled
ActiveImpliesEnabledAndPolled ==
    (phase = "loaded" /\ settings.nuclearActive) =>
        /\ settings.nuclearModeEnabled
        /\ nuclearTimerId # 0
        /\ nuclearTimers > 0

----------------------------------------------------------------------------
(* Properties: recorded addresses are not tested again (SpecScan)          *)

\* C30: a tick that finds a field showing the value the registry already holds
\* for it requests no close for that field and leaves its entry as it is,
\* whatever the keyword set and the enabled flag are by then: an address is
\* tested only in the tick that records it as changed
RecordedAddressNotRetested ==
    [][ (tick'.parity # tick.parity) =>
          \A f \in FieldIds :
             ( /\ f \in DOMAIN addressValues
               /\ tick'.seen[f].kind = "input"
               /\ tick'.seen[f].value = addressValues[f] )
             => /\ tick'.closes[f] = 0
                /\ f \in DOMAIN addressValues'
                /\ addressValues'[f] = addressValues[f]
      ]_vars

\* C30 witness: blocking is enabled, the saved blocklist has a keyword that the
\* address of a recorded field contains, and a tick that closed another field
\* for showing that very address left the recorded field alone
UnchangedLeftAlone ==
    /\ tick.ran
    /\ settings.isEnabled
    /\ stringsToCheck = parseBlocklist(TextScanA)
    /\ \E f \in FieldIds : \E g \in FieldIds \ {f} :
          /\ tick.seen[f].kind = "input"
          /\ tick.seen[g].kind = "input"
          /\ tick.seen[f].value = AddrClean
          /\ tick.seen[g].value = AddrClean
          /\ tick.closes[f] = 0
          /\ tick.closes[g] >= 1
          /\ f \in DOMAIN addressValues
          /\ addressValues[f] = AddrClean

====
